---------------------------- MODULE Spec2Model ----------------------------
(***************************************************************************)
(* A model of src/api/text_pair.py: the filter compiler (parse_args,       *)
(* query_builder), keyset pagination (search_alignments), time-series      *)
(* gap filling (generate_time_series), facet bucketing (facets) and        *)
(* grouped-duplicate resolution (get_passage_group).                       *)
(*                                                                         *)
(* Strings the code inspects character by character (filter values, the    *)
(* compiled predicate) are sequences of one-character strings.  The        *)
(* relational store is the environment: what a cursor yields is part of    *)
(* the state and is drawn by the initial predicates.                       *)
(***************************************************************************)
EXTENDS Integers, Sequences, FiniteSets, TLC

VARIABLES
    endpoint,       \* the route of the pending request
    pc,             \* "request" (pending), "done" (response sent), "failed" (handler raised)
    rows,           \* search_alignments: ordering keys of the rows matching the predicate, ascending
    has_group,      \* search_alignments: whether the table has a group_id column
    req,            \* raw control parameters of the request (query string)
    resp,           \* the response of the handler
    trail,          \* search_alignments: the pages a client has walked through, in order
    query_params,   \* the filter parameters of the query string, in order: <<field, value>> pairs
    field_types,    \* get_pg_type's answer for the table: column name -> declared type
    sql,            \* what the handler got from parse_args and the query text it built
    conn            \* the handler's store connection: "none" (not opened), "open", "closed"

vars == <<endpoint, pc, rows, has_group, req, resp, trail, query_params, field_types, sql, conn>>

-----------------------------------------------------------------------------
(* Bounds of the model *)

MaxRows == 52        \* rows of a result set
MaxStride == 2       \* distance between consecutive ordering keys
MaxGroups == 3       \* distinct group ids of a table
MaxTrail == 3        \* pages a client walks through in one session
MaxSlot == 4         \* time series: interval starts range over 0..MaxSlot intervals
MaxCount == 2        \* rows counted in one group of an aggregate query
MaxInterval == 3     \* time series: largest timeSeriesInterval requested
MaxTextLen == 5      \* characters of the filter value of a TEXT field
MaxNumLen == 3       \* characters of the filter value of a numeric field
MaxPairLen == 4      \* characters of the two filter values of a two-field request
MaxFacetRows == 3    \* distinct values of the facet field in a result set
MaxShortLen == 2     \* characters of a filter value where every endpoint is exercised
MaxMembers == 2      \* member rows of a group
MaxControlLen == 2   \* characters of a numeric control parameter

-----------------------------------------------------------------------------
(* Generic helpers *)

Reverse(s) == [i \in 1..Len(s) |-> s[Len(s) + 1 - i]]

MinKey(S) == CHOOSE x \in S : \A y \in S : x <= y

-----------------------------------------------------------------------------
(* FormArguments and the control parameters of parse_args *)

\* A numeric control parameter of the query string is modelled by an integer:
\* n >= 0 is the decimal numeral of n, NotDigits is any value str.isdigit()
\* rejects (a sign, letters, the empty string) or a missing parameter.
NotDigits == -1

\* parse_args stores int(value) only when value.isdigit(); FormArguments'
\* __setitem__ keeps a value only when it is truthy, and __getitem__ returns
\* the default of a key that was not kept.
ControlInt(raw, default) == IF raw # NotDigits /\ raw # 0 THEN raw ELSE default

\* other_args["direction"] = value or "next"; a missing key reads "next" too.
ControlDirection(raw) == IF raw = "" THEN "next" ELSE raw

EffPage(r) == ControlInt(r.page, 1)

EffAnchor(r) == ControlInt(r.id_anchor, 0)

EffDirection(r) == ControlDirection(r.direction)

-----------------------------------------------------------------------------
(* Strings as sequences of characters *)

Quote == "\""

StartsWith(s, prefix) ==
    Len(s) >= Len(prefix) /\ SubSeq(s, 1, Len(prefix)) = prefix

\* lit occurs in s at position i.
MatchLiteral(s, i, lit) ==
    i + Len(lit) - 1 <= Len(s) /\ SubSeq(s, i, i + Len(lit) - 1) = lit

\* str.strip()
RECURSIVE LStrip(_)
LStrip(s) == IF s # <<>> /\ Head(s) = " " THEN LStrip(Tail(s)) ELSE s

Strip(s) == Reverse(LStrip(Reverse(LStrip(s))))

\* str.replace(c, "")
Remove(s, c) == SelectSeq(s, LAMBDA x : x # c)

\* str.split(): the maximal runs of non-blank characters.
RECURSIVE SplitBlank(_, _)
SplitBlank(s, word) ==
    IF s = <<>> THEN (IF word = <<>> THEN <<>> ELSE <<word>>)
    ELSE IF Head(s) = " "
         THEN (IF word = <<>> THEN <<>> ELSE <<word>>) \o SplitBlank(Tail(s), <<>>)
         ELSE SplitBlank(Tail(s), Append(word, Head(s)))

\* sep.join(parts)
RECURSIVE Join(_, _)
Join(parts, sep) ==
    IF parts = <<>> THEN <<>>
    ELSE IF Len(parts) = 1 THEN parts[1]
    ELSE parts[1] \o sep \o Join(Tail(parts), sep)

\* The characters of the model's alphabets that the regex class \w rejects.
NonWordChars == {" ", Quote, "-", "%", "\\", "=", "~", "*", "!", "<", ">"}

IsWordChar(c) == c \notin NonWordChars

-----------------------------------------------------------------------------
(* BOOLEAN_ARGS = (NOT \w+)|(OR \w+)|(\w+)|("") and re.findall *)

\* The end of the longest run of word characters of s that starts at i
\* (i - 1 when s[i] is no word character): the greedy \w+.
RECURSIVE WordEnd(_, _)
WordEnd(s, i) ==
    IF i <= Len(s) /\ IsWordChar(s[i]) THEN WordEnd(s, i + 1) ELSE i - 1

\* The match of BOOLEAN_ARGS that starts at i: the first alternative, in the
\* order written, that matches there; group 0 when none does.
MatchAt(s, i) ==
    IF MatchLiteral(s, i, <<"N", "O", "T", " ">>) /\ WordEnd(s, i + 4) >= i + 4
    THEN [group |-> 1, end |-> WordEnd(s, i + 4)]
    ELSE IF MatchLiteral(s, i, <<"O", "R", " ">>) /\ WordEnd(s, i + 3) >= i + 3
    THEN [group |-> 2, end |-> WordEnd(s, i + 3)]
    ELSE IF WordEnd(s, i) >= i
    THEN [group |-> 3, end |-> WordEnd(s, i)]
    ELSE IF MatchLiteral(s, i, <<Quote, Quote>>)
    THEN [group |-> 4, end |-> i + 1]
    ELSE [group |-> 0, end |-> i - 1]

\* re.findall: the non-overlapping matches from left to right, each as the
\* tuple (not_query, or_query, regular_query, empty_query) of its groups.
RECURSIVE FindAll(_, _)
FindAll(s, i) ==
    IF i > Len(s) THEN <<>>
    ELSE LET m == MatchAt(s, i)
         IN  IF m.group = 0 THEN FindAll(s, i + 1)
             ELSE <<[g \in 1..4 |-> IF g = m.group THEN SubSeq(s, i, m.end) ELSE <<>>]>>
                  \o FindAll(s, m.end + 1)

-----------------------------------------------------------------------------
(* query_builder *)

EqualsPlaceholder == <<" ", "=", " ", "%", "s">>

TightEqualsPlaceholder == <<"=", "%", "s">>

NotRegexPlaceholder == <<" ", "!", "~", "*", " ", "%", "s">>

RegexPlaceholder == <<" ", "~", "*", " ", "%", "s">>

LessEqualPlaceholder == <<" ", "<", "=", " ", "%", "s">>

GreaterEqualPlaceholder == <<" ", ">", "=", " ", "%", "s">>

BetweenPlaceholders ==
    <<" ", "B", "E", "T", "W", "E", "E", "N", " ", "%", "s", " ", "A", "N", "D", " ", "%", "s">>

AndSeparator == <<" ", "A", "N", "D", " ">>

BanalityPlaceholder == <<"b", "a", "n", "a", "l", "i", "t", "y", "=", "%", "s">>

\* f"\m{word}\M"
WordBoundary(word) == <<"\\", "m">> \o word \o <<"\\", "M">>

\* The token the loop body works on: the first non-empty group in the order
\* not_query, or_query, empty_query, regular_query.
TokenValue(groups) ==
    IF groups[1] # <<>> THEN groups[1]
    ELSE IF groups[2] # <<>> THEN groups[2]
    ELSE IF groups[4] # <<>> THEN groups[4]
    ELSE groups[3]

\* TextFragment with the word-boundary pattern written into the fragment
\* instead of being bound.
TextFragmentInline(field, groups) ==
    LET value == TokenValue(groups)
    IN  IF StartsWith(value, <<Quote>>)
        THEN IF value = <<Quote, Quote>>
             THEN [query |-> field \o EqualsPlaceholder, values |-> << <<>> >>]
             ELSE [query |-> field \o TightEqualsPlaceholder,
                   values |-> <<SubSeq(value, 2, Len(value) - 1)>>]
        ELSE IF StartsWith(value, <<"N", "O", "T", " ">>)
        THEN [query |-> field \o NotRegexPlaceholder,
              values |-> <<WordBoundary(Strip(Join(Tail(SplitBlank(value, <<>>)), <<" ">>)))>>]
        ELSE [query |-> field \o <<" ", "~", "*", " ", "'">> \o WordBoundary(value) \o <<"'">>,
              values |-> <<>>]

\* The body of the loop over the tokens of a TEXT field: the fragment and the
\* bound value of one token.
TextFragment(field, groups) ==
    LET value == TokenValue(groups)
    IN  IF StartsWith(value, <<Quote>>)
        THEN IF value = <<Quote, Quote>>
             THEN [query |-> field \o EqualsPlaceholder, values |-> << <<>> >>]
             ELSE [query |-> field \o TightEqualsPlaceholder,
                   values |-> <<SubSeq(value, 2, Len(value) - 1)>>]
        ELSE IF StartsWith(value, <<"N", "O", "T", " ">>)
        THEN [query |-> field \o NotRegexPlaceholder,
              values |-> <<WordBoundary(Strip(Join(Tail(SplitBlank(value, <<>>)), <<" ">>)))>>]
        ELSE [query |-> field \o RegexPlaceholder, values |-> <<WordBoundary(value)>>]

\* re.split(r"(-)", value) without its empty strings.
RECURSIVE SplitDash(_, _)
SplitDash(s, part) ==
    IF s = <<>> THEN (IF part = <<>> THEN <<>> ELSE <<part>>)
    ELSE IF Head(s) = "-"
         THEN (IF part = <<>> THEN <<>> ELSE <<part>>) \o << <<"-">> >> \o SplitDash(Tail(s), <<>>)
         ELSE SplitDash(Tail(s), Append(part, Head(s)))

\* The INTEGER/FLOAT branch raises IndexError at values[1] when the value is
\* a lone "-".
NumericRaises(stripped) ==
    LET value == Remove(stripped, Quote)
    IN  value = <<"-">>

\* NumericFragment with the two bounds of a range bound in the wrong order.
NumericFragmentSwapped(field, stripped) ==
    LET value == Remove(stripped, Quote)
        values == SplitDash(value, <<>>)
    IN  IF \E i \in 1..Len(value) : value[i] = "-"
        THEN IF values[1] = <<"-">>
             THEN [query |-> field \o LessEqualPlaceholder, values |-> <<values[2]>>]
             ELSE IF values[Len(values)] = <<"-">>
             THEN [query |-> field \o GreaterEqualPlaceholder, values |-> <<values[1]>>]
             ELSE [query |-> field \o BetweenPlaceholders, values |-> <<values[3], values[1]>>]
        ELSE [query |-> field \o EqualsPlaceholder, values |-> <<value>>]

NumericFragment(field, stripped) ==
    LET value == Remove(stripped, Quote)
        values == SplitDash(value, <<>>)
    IN  IF \E i \in 1..Len(value) : value[i] = "-"
        THEN IF values[1] = <<"-">>
             THEN [query |-> field \o LessEqualPlaceholder, values |-> <<values[2]>>]
             ELSE IF values[Len(values)] = <<"-">>
             THEN [query |-> field \o GreaterEqualPlaceholder, values |-> <<values[1]>>]
             ELSE [query |-> field \o BetweenPlaceholders, values |-> <<values[1], values[3]>>]
        ELSE [query |-> field \o EqualsPlaceholder, values |-> <<value>>]

\* field_types.get(field, "TEXT").upper()
FieldType(types, field) == IF field \in DOMAIN types THEN types[field] ELSE "TEXT"

\* The fragments one entry of query_args adds, in order.
FieldFragments(types, field, raw) ==
    LET value == Strip(raw)
        field_type == FieldType(types, field)
    IN  IF field_type = "TEXT"
        THEN LET tokens == FindAll(value, 1)
             IN  [i \in 1..Len(tokens) |-> TextFragment(field, tokens[i])]
        ELSE IF field_type \in {"INTEGER", "FLOAT"}
        THEN <<NumericFragment(field, value)>>
        ELSE <<>>

FieldRaises(types, field, raw) ==
    /\ FieldType(types, field) \in {"INTEGER", "FLOAT"}
    /\ NumericRaises(Strip(raw))

RECURSIVE AllFragments(_, _)
AllFragments(types, query_args) ==
    IF query_args = <<>> THEN <<>>
    ELSE FieldFragments(types, query_args[1][1], query_args[1][2])
         \o AllFragments(types, Tail(query_args))

\* Concat with each new list of values put in front of the earlier ones.
RECURSIVE ConcatInFront(_)
ConcatInFront(seqs) ==
    IF seqs = <<>> THEN <<>> ELSE ConcatInFront(Tail(seqs)) \o Head(seqs)

\* sql_values after every append and extend, in the order they ran.
RECURSIVE Concat(_)
Concat(seqs) == IF seqs = <<>> THEN <<>> ELSE Head(seqs) \o Concat(Tail(seqs))

\* "if other_args.banality != ''": the trailing banality fragment.
BanalityFragment(banality) ==
    IF banality # <<>>
    THEN <<[query |-> BanalityPlaceholder, values |-> <<banality>>]>>
    ELSE <<>>

QueryBuilderRaises(query_args, types) ==
    \E i \in 1..Len(query_args) : FieldRaises(types, query_args[i][1], query_args[i][2])

\* query_builder: (" AND ".join(sql_fields), sql_values)
QueryBuilder(query_args, banality, types) ==
    LET fragments == AllFragments(types, query_args) \o BanalityFragment(banality)
    IN  [query |-> <<>>,
         sql_fields |-> Join([i \in 1..Len(fragments) |-> fragments[i].query], AndSeparator),
         sql_values |-> Concat([i \in 1..Len(fragments) |-> fragments[i].values])]

-----------------------------------------------------------------------------
(* parse_args *)

\* "if value: query_args[key] = value": empty values never reach query_args.
QueryArgs(params) == SelectSeq(params, LAMBDA kv : kv[2] # <<>>)

\* "banality" is not among other_args_keys, so other_args never holds it and
\* other_args.banality reads the default "".
OtherArgsBanality == <<>>

ParseArgsRaises(params, types) == QueryBuilderRaises(QueryArgs(params), types)

ParseArgs(params, types) == QueryBuilder(QueryArgs(params), OtherArgsBanality, types)

NoSql == [sql_fields |-> <<>>, sql_values |-> <<>>, query |-> <<>>]

\* The state of a request that carries no filter parameter.
NoFilter ==
    /\ query_params = <<>>
    /\ field_types = <<>>
    /\ sql = NoSql

-----------------------------------------------------------------------------
(* Query text *)

\* The text of a query is the sequence of the pieces its f-string is made
\* of: literal SQL text (cut so that WHERE and AND stand alone), interpolated
\* strings and interpolated numbers.
Lit(text) == [kind |-> "lit", lit |-> text, arg |-> <<>>, num |-> 0]

Arg(chars) == [kind |-> "arg", lit |-> "", arg |-> chars, num |-> 0]

Num(n) == [kind |-> "num", lit |-> "", arg |-> <<>>, num |-> n]

\* other_args.db_table
DbTable == <<"t">>

\* The query text has a WHERE or an AND with nothing after it but an empty
\* predicate.
Dangling(query) ==
    \E i \in 1..Len(query) :
        /\ query[i].kind = "lit"
        /\ query[i].lit \in {"WHERE", "AND"}
        /\ \/ i = Len(query)
           \/ query[i + 1].kind = "arg" /\ query[i + 1].arg = <<>>

\* cursor.execute(query, sql_values) raises on such a text (a syntax error).
StoreRejects(query) == Dangling(query)

-----------------------------------------------------------------------------
(* search_alignments: keyset pagination *)

PageSize == 50

\* The group_id column of the row with ordering key k (table data).
GroupIdOf(k) == (k % MaxGroups) + 1

\* The <table>_groups lookup: the count stored for group g.
GroupCount(g) == Len(SelectSeq(rows, LAMBDA k : GroupIdOf(k) = g))

\* The first n elements of a sequence ("LIMIT n").
Limit(s, n) == IF Len(s) <= n THEN s ELSE SubSeq(s, 1, n)

\* rows is the ordering index in ascending key order.  The keys the cursor
\* yields, in cursor order:
\*   "... o.rowid_ordered > {id_anchor} ORDER BY o.rowid_ordered LIMIT 50"
ForwardQuery(anchor) == Limit(SelectSeq(rows, LAMBDA k : k > anchor), PageSize)

BackwardQueryLE(anchor) ==
    Limit(Reverse(SelectSeq(rows, LAMBDA k : k <= anchor)), PageSize)

\*   "... o.rowid_ordered < {id_anchor} ORDER BY o.rowid_ordered desc LIMIT 50"
BackwardQuery(anchor) ==
    Limit(Reverse(SelectSeq(rows, LAMBDA k : k < anchor)), PageSize)

\* The text of the query: four variants, by direction and by whether the
\* compiled predicate is empty.
SearchQuery(sql_fields, direction, anchor) ==
    <<Lit("SELECT o.rowid_ordered, m.* FROM"), Arg(DbTable), Lit("m,"), Arg(DbTable),
      Lit("_ordered o"), Lit("WHERE")>>
    \o (IF sql_fields # <<>> THEN <<Arg(sql_fields), Lit("AND")>> ELSE <<>>)
    \o <<Lit("o.source_year_target_year=m.rowid and")>>
    \o (IF direction = "next"
        THEN <<Lit("o.rowid_ordered >"), Num(anchor), Lit("ORDER BY o.rowid_ordered LIMIT 50")>>
        ELSE <<Lit("o.rowid_ordered <"), Num(anchor),
               Lit("ORDER BY o.rowid_ordered desc LIMIT 50")>>)

\* Any direction other than "next" runs the backward query.
CursorKeys(direction, anchor) ==
    IF direction = "next" THEN ForwardQuery(anchor) ELSE BackwardQuery(anchor)

\* The row loop: one metadata dict per row; group_id only if the column exists.
Metadata(k) ==
    IF has_group
    THEN [rowid_ordered |-> k, group_id |-> GroupIdOf(k), count |-> 0]
    ELSE [rowid_ordered |-> k, group_id |-> 0, count |-> 0]

RowLoopAlignments(keys) == [i \in 1..Len(keys) |-> Metadata(keys[i])]

RowLoopGroupIds(keys) ==
    IF has_group THEN [i \in 1..Len(keys) |-> GroupIdOf(keys[i])] ELSE <<>>

\* "if other_args.direction == 'previous': alignments.reverse(); group_ids.reverse()"
ReverseAlignments(direction, alignments) ==
    IF direction = "previous" THEN Reverse(alignments) ELSE alignments

KeepGroupIds(direction, group_ids) == group_ids

ReverseGroupIds(direction, group_ids) ==
    IF direction = "previous" THEN Reverse(group_ids) ELSE group_ids

\* "if group_ids:" the secondary lookup attaches each row's group count.
AttachCounts(alignments, group_ids) ==
    IF group_ids # <<>>
    THEN [i \in 1..Len(alignments) |->
            [alignments[i] EXCEPT !.count = GroupCount(alignments[i].group_id)]]
    ELSE alignments

\* A URL is the sequence of the parameters appended to current_path; the empty
\* string is the empty sequence.
EmptyUrl == <<>>

PreviousUrl(page, alignments) ==
    <<page - 1, alignments[1].rowid_ordered, "previous">>

NextUrl(page, alignments) ==
    <<page + 1, alignments[Len(alignments)].rowid_ordered, "next">>

UrlPage(url) == url[1]

UrlAnchor(url) == url[2]

UrlDirection(url) == url[3]

NoResponse ==
    [alignments |-> <<>>, group_ids |-> <<>>, page |-> 0,
     next_url |-> EmptyUrl, previous_url |-> EmptyUrl, start_position |-> 0]

\* The handler from the cursor loop to the returned dict.  It raises IndexError
\* at "alignments[0]" when page > 1 and no row came back: only the next_url
\* line is inside the try block.
SearchRaises(r) ==
    EffPage(r) > 1 /\ CursorKeys(EffDirection(r), EffAnchor(r)) = <<>>

SearchResponse(r) ==
    LET direction == EffDirection(r)
        page == EffPage(r)
        keys == CursorKeys(direction, EffAnchor(r))
        group_ids == ReverseGroupIds(direction, RowLoopGroupIds(keys))
        alignments ==
            AttachCounts(ReverseAlignments(direction, RowLoopAlignments(keys)), group_ids)
    IN  [alignments |-> alignments,
         group_ids |-> group_ids,
         page |-> page,
         next_url |-> IF alignments = <<>> THEN EmptyUrl ELSE NextUrl(page, alignments),
         previous_url |-> IF page > 1 THEN PreviousUrl(page, alignments) ELSE EmptyUrl,
         start_position |-> IF page > 1 THEN PageSize * (page - 1) ELSE 0]

Keys(alignments) == {alignments[i].rowid_ordered : i \in 1..Len(alignments)}

\* The connection of a handler that has run psycopg2.connect(): conn.close()
\* is a plain statement after the queries and the row loop, so it runs only
\* when nothing before it raised.
ConnAfter(raised_before_close) == IF raised_before_close THEN "open" ELSE "closed"

\* search_alignments serving the request r; via records how the client came
\* to issue it ("fresh", "next_url" or "previous_url").
Serve(r, via, before) ==
    /\ req' = r
    /\ IF ParseArgsRaises(query_params, field_types)
       THEN /\ pc' = "failed"
            /\ sql' = NoSql
            /\ resp' = NoResponse
            /\ conn' = "none"
       ELSE LET compiled == ParseArgs(query_params, field_types)
                query == SearchQuery(compiled.sql_fields, EffDirection(r), EffAnchor(r))
            IN  /\ sql' = [compiled EXCEPT !.query = query]
                /\ conn' = ConnAfter(StoreRejects(query))
                /\ IF StoreRejects(query) \/ SearchRaises(r)
                   THEN /\ pc' = "failed"
                        /\ resp' = NoResponse
                   ELSE /\ pc' = "done"
                        /\ resp' = SearchResponse(r)
    /\ trail' = before \o
         <<[via |-> via, req |-> r, ok |-> pc' = "done", keys |-> Keys(resp'.alignments)]>>
    /\ UNCHANGED <<endpoint, rows, has_group, query_params, field_types>>

Directions == {"", "next", "previous", "back"}

AnchorChoices == {NotDigits, 0, 1, PageSize + 1}

PageChoices == {NotDigits, 0, 1, 2}

\* A client issues a request with parameters of its own choosing.
search_alignments ==
    /\ endpoint = "search_alignments"
    /\ pc = "request"
    /\ \E d \in Directions, a \in AnchorChoices, p \in PageChoices :
          Serve([direction |-> d, id_anchor |-> a, page |-> p], "fresh", <<>>)

\* A client follows the next_url of the page it holds.
FollowNextUrl ==
    /\ endpoint = "search_alignments"
    /\ pc = "done"
    /\ resp.next_url # EmptyUrl
    /\ Len(trail) < MaxTrail
    /\ Serve([direction |-> UrlDirection(resp.next_url),
              id_anchor |-> UrlAnchor(resp.next_url),
              page |-> UrlPage(resp.next_url)], "next_url", trail)

\* A client follows the previous_url of the page it holds.
FollowPreviousUrl ==
    /\ endpoint = "search_alignments"
    /\ pc = "done"
    /\ resp.previous_url # EmptyUrl
    /\ Len(trail) < MaxTrail
    /\ Serve([direction |-> UrlDirection(resp.previous_url),
              id_anchor |-> UrlAnchor(resp.previous_url),
              page |-> UrlPage(resp.previous_url)], "previous_url", trail)

\* The store: ordering keys are positive, distinct and indexed in ascending
\* order (a serial column).
InitSearch ==
    /\ endpoint = "search_alignments"
    /\ pc = "request"
    /\ \E n \in 0..MaxRows, stride \in 1..MaxStride : rows = [i \in 1..n |-> stride * i]
    /\ has_group \in BOOLEAN
    /\ req = [direction |-> "", id_anchor |-> NotDigits, page |-> NotDigits]
    /\ resp = NoResponse
    /\ trail = <<>>
    /\ conn = "none"
    /\ NoFilter

NextSearch == search_alignments \/ FollowNextUrl \/ FollowPreviousUrl

SpecSearch == InitSearch /\ [][NextSearch]_vars

-----------------------------------------------------------------------------
(* Properties of search_alignments *)

\* The client asked for page 1 (direction next, anchor 0) of a result set of
\* more than PageSize rows, followed next_url, then followed previous_url.
RoundTripWalked ==
    /\ Len(rows) > PageSize
    /\ Len(trail) = 3
    /\ trail[1].via = "fresh"
    /\ EffDirection(trail[1].req) = "next"
    /\ EffAnchor(trail[1].req) = 0
    /\ EffPage(trail[1].req) = 1
    /\ trail[2].via = "next_url"
    /\ trail[3].via = "previous_url"

\* C1: page 1, then its next_url, then page 2's previous_url, returns exactly
\* the set of ordering keys of page 1.
C1_PaginationRoundTrip ==
    RoundTripWalked =>
        /\ trail[3].ok
        /\ trail[3].keys = trail[1].keys
        /\ EffDirection(req) = "previous"
        /\ EffAnchor(req) = MinKey(trail[2].keys)

C1_Witness ==
    /\ RoundTripWalked
    /\ trail[3].keys = trail[1].keys
    /\ Cardinality(trail[1].keys) = PageSize
    /\ rows[2] - rows[1] > 1

StrictlyAscending(alignments) ==
    \A i \in 1..(Len(alignments) - 1) :
        alignments[i].rowid_ordered < alignments[i + 1].rowid_ordered

\* C2: for direction next and previous alike, the returned alignments are in
\* strictly ascending rowid_ordered order and group_ids[i] is the group_id of
\* alignments[i].
C2_AscendingAndAligned ==
    (pc = "done" /\ EffDirection(req) \in {"next", "previous"}) =>
        /\ StrictlyAscending(resp.alignments)
        /\ has_group => Len(resp.group_ids) = Len(resp.alignments)
        /\ \A i \in 1..Len(resp.group_ids) :
              resp.group_ids[i] = resp.alignments[i].group_id

C2_Witness ==
    /\ pc = "done"
    /\ EffDirection(req) = "previous"
    /\ has_group
    /\ Len(resp.alignments) = PageSize
    /\ resp.group_ids[1] # resp.group_ids[PageSize]
    /\ StrictlyAscending(resp.alignments)

\* The query of the request just handled returned no row.
EmptyResultSet ==
    /\ pc \in {"done", "failed"}
    /\ CursorKeys(EffDirection(req), EffAnchor(req)) = <<>>

\* C3: a request whose query returns an empty result set completes, for every
\* page and direction, with next_url the empty string, and with previous_url
\* the empty string whenever page <= 1.
C3_EmptyResultCompletes ==
    EmptyResultSet =>
        /\ pc = "done"
        /\ resp.next_url = EmptyUrl
        /\ EffPage(req) <= 1 => resp.previous_url = EmptyUrl

-----------------------------------------------------------------------------
(* generate_time_series: time-series bucketing with gap filling *)

EffInterval(r) == ControlInt(r.timeSeriesInterval, 1)

\* "while year > next_year": append zero-count entries up to year.
RECURSIVE GapFill(_, _, _, _)
GapFill(results, next_year, year, interval) ==
    IF year > next_year
    THEN GapFill(Append(results, [year |-> next_year, count |-> 0]),
                 next_year + interval, year, interval)
    ELSE results

\* "next_year = year + other_args.timeSeriesInterval"
NextYearSame(year, interval) == year

NextYear(year, interval) == year + interval

\* One iteration of "for year, count in cursor" on the loop state
\* acc = [results, total_results, started, next_year]; started is
\* "next_year is not None".
TimeSeriesStep(acc, row, interval) ==
    IF row.is_null THEN acc
    ELSE LET filled == IF acc.started
                       THEN GapFill(acc.results, acc.next_year, row.year, interval)
                       ELSE acc.results
         IN  [results |-> Append(filled, [year |-> row.year, count |-> row.count]),
              total_results |-> acc.total_results + row.count,
              started |-> TRUE,
              next_year |-> NextYear(row.year, interval)]

RECURSIVE TimeSeriesLoop(_, _, _, _)
TimeSeriesLoop(acc, cursor, i, interval) ==
    IF i > Len(cursor) THEN acc
    ELSE TimeSeriesLoop(TimeSeriesStep(acc, cursor[i], interval), cursor, i + 1, interval)

TimeSeriesResponse(r) ==
    LET acc == TimeSeriesLoop([results |-> <<>>, total_results |-> 0,
                               started |-> FALSE, next_year |-> 0],
                              rows, 1, EffInterval(r))
    IN  [counts |-> acc.total_results, results |-> acc.results]

\* other_args.directionSelected: "source" unless the request names a side.
EffDirectionSelected(r) == IF r.directionSelected = "" THEN "source" ELSE r.directionSelected

TimeSeriesQuery(sql_fields, r) ==
    <<Lit("select interval AS year, COUNT(*) FROM (SELECT floor("),
      Lit(EffDirectionSelected(r)), Lit("_year/"), Num(EffInterval(r)), Lit(")*"),
      Num(EffInterval(r)), Lit("AS interval FROM"), Arg(DbTable)>>
    \o (IF sql_fields # <<>> THEN <<Lit("WHERE"), Arg(sql_fields)>> ELSE <<>>)
    \o <<Lit(") t GROUP BY interval ORDER BY interval")>>

\* A handler that parses the arguments, builds its query, runs it and shapes
\* the rows: it fails when parse_args raises or the store rejects the query.
Handle(query, response) ==
    /\ pc = "request"
    /\ IF ParseArgsRaises(query_params, field_types)
       THEN /\ pc' = "failed"
            /\ sql' = NoSql
            /\ conn' = "none"
            /\ UNCHANGED resp
       ELSE /\ sql' = [ParseArgs(query_params, field_types) EXCEPT !.query = query]
            /\ conn' = ConnAfter(StoreRejects(query))
            /\ IF StoreRejects(query)
               THEN pc' = "failed" /\ UNCHANGED resp
               ELSE pc' = "done" /\ resp' = response
    /\ UNCHANGED <<endpoint, rows, has_group, req, trail, query_params, field_types>>

generate_time_series ==
    /\ endpoint = "generate_time_series"
    /\ Handle(TimeSeriesQuery(ParseArgs(query_params, field_types).sql_fields, req),
              TimeSeriesResponse(req))

\* What the store returns for
\*   "select interval AS year, COUNT(*) ... floor(year/interval)*interval ...
\*    GROUP BY interval ORDER BY interval":
\* one row per observed interval start (a multiple of the interval), in
\* ascending order, then the group of the rows whose year is null, if any.
\* f[j] is the number of rows in the interval starting at j * interval.
RECURSIVE GroupedByInterval(_, _, _)
GroupedByInterval(f, j, interval) ==
    IF j > MaxSlot THEN <<>>
    ELSE (IF f[j] > 0
          THEN <<[is_null |-> FALSE, year |-> j * interval, count |-> f[j]]>>
          ELSE <<>>) \o GroupedByInterval(f, j + 1, interval)

NullGroup(n) == IF n > 0 THEN <<[is_null |-> TRUE, year |-> 0, count |-> n]>> ELSE <<>>

IntervalChoices == {NotDigits} \cup (0..MaxInterval)

InitTimeSeries ==
    /\ endpoint = "generate_time_series"
    /\ pc = "request"
    /\ \E iv \in IntervalChoices :
          /\ \E side \in {"", "source", "target"} :
                req = [timeSeriesInterval |-> iv, directionSelected |-> side]
          /\ \E f \in [0..MaxSlot -> 0..MaxCount], n \in 0..MaxCount :
                rows = GroupedByInterval(f, 0, ControlInt(iv, 1)) \o NullGroup(n)
    /\ has_group = FALSE
    /\ resp = [counts |-> 0, results |-> <<>>]
    /\ trail = <<>>
    /\ conn = "none"
    /\ NoFilter

NextTimeSeries == generate_time_series

SpecTimeSeries == InitTimeSeries /\ [][NextTimeSeries]_vars

\* The rows of the store's answer whose interval is not null.
Observed == SelectSeq(rows, LAMBDA row : ~row.is_null)

ObservedCount(year) ==
    IF \E i \in 1..Len(Observed) : Observed[i].year = year
    THEN Observed[CHOOSE i \in 1..Len(Observed) : Observed[i].year = year].count
    ELSE 0

\* C4: the results list is contiguous and strictly increasing in steps of
\* exactly timeSeriesInterval, runs from the first to the last observed
\* interval, keeps the count of every observed interval and gives every
\* synthesized entry the count 0.
C4_GapFillContiguous ==
    (endpoint = "generate_time_series" /\ pc = "done") =>
        LET res == resp.results
        IN  /\ \A i \in 1..(Len(res) - 1) :
                  res[i + 1].year - res[i].year = EffInterval(req)
            /\ (Observed = <<>>) <=> (res = <<>>)
            /\ Observed # <<>> =>
                  /\ res[1].year = Observed[1].year
                  /\ res[Len(res)].year = Observed[Len(Observed)].year
            /\ \A i \in 1..Len(res) : res[i].count = ObservedCount(res[i].year)
            /\ \A i \in 1..Len(Observed) :
                  \E k \in 1..Len(res) : res[k].year = Observed[i].year

C4_Witness ==
    /\ endpoint = "generate_time_series"
    /\ pc = "done"
    /\ EffInterval(req) > 1
    /\ Len(rows) = 3
    /\ rows[3].is_null
    /\ Len(resp.results) = 4
    /\ resp.results[2].count = 0
    /\ resp.results[3].count = 0
    /\ resp.results[4].count = MaxCount

-----------------------------------------------------------------------------
(* facets: facet counting and passage-length bucketing *)

\* The labels whose counter one row increments: "if length < 26", then the
\* separate if/elif chain over the other ranges.
BucketLabelsBelow25(length) ==
    (IF length < 25 THEN <<"1-25">> ELSE <<>>)
    \o (IF 25 < length /\ length < 101 THEN <<"26-100">>
        ELSE IF 100 < length /\ length < 251 THEN <<"101-250">>
        ELSE IF 250 < length /\ length < 501 THEN <<"251-500">>
        ELSE IF 500 < length /\ length < 1001 THEN <<"501-1000">>
        ELSE IF 1000 < length /\ length < 3001 THEN <<"1001-3000">>
        ELSE IF length > 3000 THEN <<"3001-">>
        ELSE <<>>)

BucketLabels(length) ==
    (IF length < 26 THEN <<"1-25">> ELSE <<>>)
    \o (IF 25 < length /\ length < 101 THEN <<"26-100">>
        ELSE IF 100 < length /\ length < 251 THEN <<"101-250">>
        ELSE IF 250 < length /\ length < 501 THEN <<"251-500">>
        ELSE IF 500 < length /\ length < 1001 THEN <<"501-1000">>
        ELSE IF 1000 < length /\ length < 3001 THEN <<"1001-3000">>
        ELSE IF length > 3000 THEN <<"3001-">>
        ELSE <<>>)

\* A Counter is the sequence of its (field, count) items in insertion order.
\* counts[label] += n
Increment(counts, label, n) ==
    IF \E i \in 1..Len(counts) : counts[i].field = label
    THEN [i \in 1..Len(counts) |->
            IF counts[i].field = label
            THEN [counts[i] EXCEPT !.count = counts[i].count + n]
            ELSE counts[i]]
    ELSE Append(counts, [field |-> label, count |-> n])

RECURSIVE IncrementAll(_, _, _)
IncrementAll(counts, labels, n) ==
    IF labels = <<>> THEN counts
    ELSE IncrementAll(Increment(counts, Head(labels), n), Tail(labels), n)

\* "for length, count in cursor" over the rows from i on.
RECURSIVE BucketLoop(_, _, _)
BucketLoop(counts, cursor, i) ==
    IF i > Len(cursor) THEN counts
    ELSE BucketLoop(IncrementAll(counts, BucketLabels(cursor[i].field), cursor[i].count),
                    cursor, i + 1)

\* sorted(items, key=count, reverse=True): descending by count, items of
\* equal count in their original order.
RECURSIVE SortedByCount(_)
SortedByCount(items) ==
    IF items = <<>> THEN <<>>
    ELSE LET rest == SortedByCount(Tail(items))
             ahead == SelectSeq(rest, LAMBDA x : x.count > Head(items).count)
             behind == SelectSeq(rest, LAMBDA x : x.count <= Head(items).count)
         IN  ahead \o <<Head(items)>> \o behind

RECURSIVE SumCounts(_)
SumCounts(items) == IF items = <<>> THEN 0 ELSE Head(items).count + SumCounts(Tail(items))

\* facet.endswith("passage_length")
IsLengthFacet(facet) == facet \in {"source_passage_length", "target_passage_length"}

FacetsResponse(r) ==
    [facet |-> r.facet,
     results |-> IF IsLengthFacet(r.facet)
                 THEN SortedByCount(BucketLoop(<<>>, rows, 1))
                 ELSE rows,
     total_count |-> SumCounts(rows)]

FacetsQuery(sql_fields, r) ==
    <<Lit("SELECT"), Lit(r.facet), Lit(", COUNT(*) FROM"), Arg(DbTable)>>
    \o (IF sql_fields # <<>> THEN <<Lit("WHERE"), Arg(sql_fields)>> ELSE <<>>)
    \o <<Lit("GROUP BY"), Lit(r.facet), Lit("ORDER BY COUNT(*) DESC")>>

facets ==
    /\ endpoint = "facets"
    /\ Handle(FacetsQuery(ParseArgs(query_params, field_types).sql_fields, req),
              FacetsResponse(req))

\* Passage lengths around every boundary of the literal ranges.
LengthValues == {1, 25, 26, 100, 101, 250, 251, 500, 501, 1000, 1001, 3000, 3001}

\* What the store returns for "SELECT facet, COUNT(*) ... GROUP BY facet
\* ORDER BY COUNT(*) DESC": one row per distinct value, by descending count,
\* values of equal count in any order. order lists the values, f counts them.
IsFacetOrder(order, f) ==
    /\ \A i, j \in 1..Len(order) : i # j => order[i] # order[j]
    /\ \A i \in 1..(Len(order) - 1) : f[order[i]] >= f[order[i + 1]]

FacetRows(order, f) == [i \in 1..Len(order) |-> [field |-> order[i], count |-> f[order[i]]]]

FacetChoices == {"target_passage_length", "source_year"}

InitFacets ==
    /\ endpoint = "facets"
    /\ pc = "request"
    /\ \E facet \in FacetChoices : req = [facet |-> facet]
    /\ \E values \in SUBSET LengthValues :
          /\ Cardinality(values) <= MaxFacetRows
          /\ \E f \in [values -> 1..MaxCount], order \in [1..Cardinality(values) -> values] :
                /\ IsFacetOrder(order, f)
                /\ rows = FacetRows(order, f)
    /\ has_group = FALSE
    /\ resp = [facet |-> "", results |-> <<>>, total_count |-> 0]
    /\ trail = <<>>
    /\ conn = "none"
    /\ NoFilter

NextFacets == facets

SpecFacets == InitFacets /\ [][NextFacets]_vars

\* The literal range a bucket label names.
RangeOf(label) ==
    CASE label = "1-25" -> 1..25
      [] label = "26-100" -> 26..100
      [] label = "101-250" -> 101..250
      [] label = "251-500" -> 251..500
      [] label = "501-1000" -> 501..1000
      [] label = "1001-3000" -> 1001..3000
      [] label = "3001-" -> {n \in LengthValues : n >= 3001}
      [] OTHER -> {}

\* The rows of the store's answer whose length lies in the range of label.
RowsIn(label) == SelectSeq(rows, LAMBDA row : row.field \in RangeOf(label))

\* C10: with a passage_length facet every length is counted in exactly the
\* bucket whose literal range contains it, so each returned bucket holds the
\* counts of the lengths of its range, total_count is the sum of the bucket
\* counts, and the buckets come in non-increasing order of count.
C10_LengthBuckets ==
    (endpoint = "facets" /\ pc = "done" /\ IsLengthFacet(req.facet)) =>
        LET res == resp.results
        IN  /\ \A i \in 1..Len(res) :
                  /\ RowsIn(res[i].field) # <<>>
                  /\ res[i].count = SumCounts(RowsIn(res[i].field))
            /\ \A i, j \in 1..Len(res) : i # j => res[i].field # res[j].field
            /\ \A k \in 1..Len(rows) :
                  \E i \in 1..Len(res) : rows[k].field \in RangeOf(res[i].field)
            /\ resp.total_count = SumCounts(res)
            /\ \A i \in 1..(Len(res) - 1) : res[i].count >= res[i + 1].count

C10_Witness ==
    /\ endpoint = "facets"
    /\ pc = "done"
    /\ req.facet = "target_passage_length"
    /\ {rows[k].field : k \in 1..Len(rows)} = {25, 26, 3001}
    /\ Len(resp.results) = 3
    /\ resp.results[1].field = "26-100"
    /\ resp.results[1].count > resp.results[2].count
    /\ resp.total_count = SumCounts(resp.results)

-----------------------------------------------------------------------------
(* metadata: parse_args on a request with filter parameters *)

TextChars == {"N", "O", "T", "R", " ", Quote}

NumChars == {"1", "2", "-", Quote}

Strings(chars, n) == UNION {[1..k -> chars] : k \in 0..n}

\* Column names: a TEXT column, a column whose declared type varies, the
\* synthetic rowid, and a name that is no column of the table.
TitleField == <<"a">>

YearField == <<"y">>

UnknownField == <<"z">>

RowidField == <<"r", "o", "w", "i", "d">>

ColumnTypes == {"INTEGER", "FLOAT", "DATE"}

\* get_pg_type(table) with metadata_field_types["rowid"] = "INTEGER" added.
MetadataFieldTypes(year_type) ==
    (TitleField :> "TEXT") @@ (YearField :> year_type) @@ (RowidField :> "INTEGER")

\* The filter parameters of a request: one TEXT field, one field the schema
\* does not know, one field of a varying declared type, or a TEXT and a
\* numeric field in either order.
IsFilterRequest(params, text_len, num_len, pair_len) ==
    \/ \E k \in 0..text_len : \E v \in [1..k -> TextChars] :
          params = << <<TitleField, v>> >>
    \/ \E k \in 0..num_len : \E v \in [1..k -> TextChars] :
          params = << <<UnknownField, v>> >>
    \/ \E k \in 0..num_len : \E v \in [1..k -> NumChars] :
          params = << <<YearField, v>> >>
    \/ \E i \in 1..(pair_len - 1) : \E j \in 1..(pair_len - i) :
          \E t \in [1..i -> TextChars], n \in [1..j -> NumChars] :
             \/ params = << <<TitleField, t>>, <<YearField, n>> >>
             \/ params = << <<YearField, n>>, <<TitleField, t>> >>

HasField(params, field) == \E i \in 1..Len(params) : params[i][1] = field

\* The raw value of field in the request (the empty string when absent).
RawValue(params, field) ==
    IF HasField(params, field)
    THEN params[CHOOSE i \in 1..Len(params) : params[i][1] = field][2]
    ELSE <<>>

\* The declared type of the varying column: every type for a request on
\* that column alone or with one more character, INTEGER otherwise.
InitFieldTypes ==
    \E year_type \in ColumnTypes :
       /\ year_type # "INTEGER" =>
             /\ HasField(query_params, YearField)
             /\ IF Len(query_params) = 1 THEN TRUE
                ELSE Len(query_params[1][2]) + Len(query_params[2][2]) = 2
       /\ field_types = MetadataFieldTypes(year_type)

InitHandler ==
    /\ pc = "request"
    /\ sql = NoSql
    /\ has_group = FALSE
    /\ trail = <<>>
    /\ conn = "none"

\* metadata: parse_args, then the list of column names.
metadata ==
    /\ endpoint = "metadata"
    /\ pc = "request"
    /\ IF ParseArgsRaises(query_params, field_types)
       THEN /\ pc' = "failed"
            /\ UNCHANGED <<sql, resp>>
       ELSE /\ pc' = "done"
            /\ sql' = ParseArgs(query_params, field_types)
            /\ resp' = <<TitleField, YearField, RowidField>>
    /\ UNCHANGED <<endpoint, rows, has_group, req, trail, query_params, field_types, conn>>

InitCompile ==
    /\ endpoint = "metadata"
    /\ rows = <<>>
    /\ req = [direction |-> "", id_anchor |-> NotDigits, page |-> NotDigits]
    /\ resp = <<>>
    /\ IsFilterRequest(query_params, MaxTextLen, MaxNumLen, MaxPairLen)
    /\ InitFieldTypes
    /\ InitHandler

NextCompile == metadata

SpecCompile == InitCompile /\ [][NextCompile]_vars

-----------------------------------------------------------------------------
(* Properties of query_builder *)

Compiled == endpoint = "metadata" /\ pc = "done"

\* part occurs in s as a contiguous run.
Occurs(part, s) == \E i \in 1..(Len(s) + 1) : MatchLiteral(s, i, part)

\* x is y with some elements left out.
RECURSIVE IsSubsequence(_, _)
IsSubsequence(x, y) ==
    IF x = <<>> THEN TRUE
    ELSE IF y = <<>> THEN FALSE
    ELSE IF Head(x) = Head(y) THEN IsSubsequence(Tail(x), Tail(y))
    ELSE IsSubsequence(x, Tail(y))

\* The maximal runs of s made of characters outside seps.
RECURSIVE Runs(_, _, _)
Runs(s, seps, run) ==
    IF s = <<>> THEN (IF run = <<>> THEN <<>> ELSE <<run>>)
    ELSE IF Head(s) \in seps
         THEN (IF run = <<>> THEN <<>> ELSE <<run>>) \o Runs(Tail(s), seps, <<>>)
         ELSE Runs(Tail(s), seps, Append(run, Head(s)))

\* The positions of the %s placeholders of a predicate, left to right.
Placeholders(pred) ==
    SelectSeq([i \in 1..Len(pred) |-> i], LAMBDA i : MatchLiteral(pred, i, <<"%", "s">>))

\* lit ends right before position i of pred.
EndsBefore(pred, i, lit) == i > Len(lit) /\ MatchLiteral(pred, i - Len(lit), lit)

\* The operator the placeholder at position i of pred belongs to.
PlaceholderKind(pred, i) ==
    IF EndsBefore(pred, i, <<" ", "!", "~", "*", " ">>) THEN "not_regex"
    ELSE IF EndsBefore(pred, i, <<" ", "~", "*", " ">>) THEN "regex"
    ELSE IF EndsBefore(pred, i, <<" ", "<", "=", " ">>) THEN "le"
    ELSE IF EndsBefore(pred, i, <<" ", ">", "=", " ">>) THEN "ge"
    ELSE IF EndsBefore(pred, i, <<" ", "B", "E", "T", "W", "E", "E", "N", " ">>) THEN "low"
    ELSE IF EndsBefore(pred, i, <<"%", "s", " ", "A", "N", "D", " ">>) THEN "high"
    ELSE IF EndsBefore(pred, i, <<"=">>) \/ EndsBefore(pred, i, <<"=", " ">>) THEN "eq"
    ELSE "none"

FieldNames == {TitleField, YearField, UnknownField}

\* The field whose fragment holds position i of pred: the nearest field name
\* to its left (field names are single lower-case letters no template has).
FieldBefore(pred, i) ==
    LET at == {k \in 1..i : <<pred[k]>> \in FieldNames}
    IN  <<pred[CHOOSE k \in at : \A j \in at : j <= k]>>

IsWordBoundary(v) ==
    /\ Len(v) >= 4
    /\ SubSeq(v, 1, 2) = <<"\\", "m">>
    /\ SubSeq(v, Len(v) - 1, Len(v)) = <<"\\", "M">>

Inner(v) == SubSeq(v, 3, Len(v) - 2)

\* The bound value v is the one the filter string raw yields for a
\* placeholder of this kind.
ProducedFor(kind, v, raw, type) ==
    LET unquoted == Remove(raw, Quote)
    IN  CASE kind = "regex" ->
                type = "TEXT" /\ IsWordBoundary(v) /\ Occurs(Inner(v), raw)
          [] kind = "not_regex" ->
                type = "TEXT" /\ IsWordBoundary(v)
                /\ Occurs(<<"N", "O", "T", " ">> \o Inner(v), raw)
          [] kind = "eq" ->
                IF type = "TEXT" THEN Occurs(<<Quote>> \o v \o <<Quote>>, raw)
                ELSE v = Strip(unquoted)
          [] kind = "le" -> type # "TEXT" /\ Occurs(<<"-">> \o v, unquoted)
          [] kind = "ge" -> type # "TEXT" /\ Occurs(v \o <<"-">>, unquoted)
          [] kind = "low" -> type # "TEXT" /\ Occurs(v \o <<"-">>, unquoted)
          [] kind = "high" -> type # "TEXT" /\ Occurs(<<"-">> \o v, unquoted)
          [] OTHER -> FALSE

\* The parts a filter string is cut into, in order: the words of a TEXT
\* value, the numerals and dashes of a numeric one.
RawParts(raw, type) ==
    IF type = "TEXT" THEN Runs(raw, NonWordChars, <<>>)
    ELSE SplitDash(Remove(Strip(raw), Quote), <<>>)

\* The words of the bound values at the placeholders of field, in order.
BoundWords(pred, values, field) ==
    LET at == Placeholders(pred)
        mine == SelectSeq([n \in 1..Len(at) |-> n], LAMBDA n : FieldBefore(pred, at[n]) = field)
    IN  Concat([k \in 1..Len(mine) |->
                  IF IsWordBoundary(values[mine[k]])
                  THEN SplitBlank(Inner(values[mine[k]]), <<>>)
                  ELSE IF values[mine[k]] = <<>> THEN <<>> ELSE <<values[mine[k]]>>])

\* C5: the predicate has as many %s placeholders as there are bound values,
\* and the i-th bound value is the one produced for the i-th placeholder:
\* it fits the operator and the filter string of the field that placeholder
\* belongs to, and the values of one field come in the order of its tokens.
C5_PlaceholdersMatchValues ==
    Compiled =>
        LET pred == sql.sql_fields
            at == Placeholders(pred)
        IN  /\ Len(at) = Len(sql.sql_values)
            /\ \A n \in 1..Len(at) :
                  LET field == FieldBefore(pred, at[n])
                  IN  /\ HasField(query_params, field)
                      /\ ProducedFor(PlaceholderKind(pred, at[n]), sql.sql_values[n],
                                     RawValue(query_params, field),
                                     FieldType(field_types, field))
            /\ \A field \in FieldNames :
                  IsSubsequence(BoundWords(pred, sql.sql_values, field),
                                RawParts(RawValue(query_params, field),
                                         FieldType(field_types, field)))

C5_Witness ==
    /\ Compiled
    /\ Len(query_params) = 2
    /\ Len(sql.sql_values) = 3
    /\ Len(Placeholders(sql.sql_fields)) = 3
    /\ PlaceholderKind(sql.sql_fields, Placeholders(sql.sql_fields)[1]) = "low"
    /\ PlaceholderKind(sql.sql_fields, Placeholders(sql.sql_fields)[3]) = "regex"
    /\ sql.sql_values[1] # sql.sql_values[2]

\* The shape of a TEXT filter string: which alternative of BOOLEAN_ARGS each
\* of its tokens matched, in order.
TokenKinds(raw) ==
    LET tokens == FindAll(Strip(raw), 1)
    IN  [i \in 1..Len(tokens) |-> CHOOSE g \in 1..4 : tokens[i][g] # <<>>]

\* The shape of a numeric filter string: which of the four forms it has.
NumericForm(raw) ==
    LET u == Remove(Strip(raw), Quote)
    IN  IF \A i \in 1..Len(u) : u[i] # "-" THEN "N"
        ELSE IF u[1] = "-" THEN "-N"
        ELSE IF u[Len(u)] = "-" THEN "N-"
        ELSE "N-M"

\* Field names, field types and token shapes of a request.
Shape(params, types) ==
    LET args == QueryArgs(params)
    IN  [i \in 1..Len(args) |->
            [field |-> args[i][1],
             type |-> FieldType(types, args[i][1]),
             tokens |-> IF FieldType(types, args[i][1]) = "TEXT"
                        THEN TokenKinds(args[i][2])
                        ELSE <<NumericForm(args[i][2])>>]]

\* s with every c replaced by d.
Substitute(s, c, d) == [i \in 1..Len(s) |-> IF s[i] = c THEN d ELSE s[i]]

\* The word characters of the model's alphabets.
WordChars == {c \in TextChars \cup NumChars : IsWordChar(c)}

\* Other filter values for a field: one word character replaced throughout
\* by another, or one word character added at the end.
ValueVariants(v) ==
    {Substitute(v, c, d) : c \in {v[i] : i \in 1..Len(v)} \cap WordChars, d \in WordChars}
    \cup {Append(v, d) : d \in WordChars}

\* The requests that differ from params in the value of one field.
Variants(params) ==
    UNION {{[params EXCEPT ![i] = <<params[i][1], w>>] : w \in ValueVariants(params[i][2])} :
             i \in 1..Len(params)}

\* other has the given field names, field types and token shapes, and
\* query_builder returns on it.
Twin(other, shape) ==
    /\ ~ParseArgsRaises(other, field_types)
    /\ Shape(other, field_types) = shape

\* C6: the predicate holds no raw filter value: a request with the same field
\* names, field types and token shapes but other filter values compiles to
\* the identical predicate string.
C6_PredicateFreeOfValues ==
    Compiled =>
        LET shape == Shape(query_params, field_types)
        IN  \A other \in Variants(query_params) :
                Twin(other, shape) => ParseArgs(other, field_types).sql_fields = sql.sql_fields

C6_Witness ==
    /\ Compiled
    /\ Len(sql.sql_values) = 3
    /\ \E other \in Variants(query_params) :
          /\ Twin(other, Shape(query_params, field_types))
          /\ ParseArgs(other, field_types).sql_fields = sql.sql_fields
          /\ ParseArgs(other, field_types).sql_values # sql.sql_values

\* The position of the first Quote of s at or after i (0 when there is none).
RECURSIVE NextQuote(_, _)
NextQuote(s, i) ==
    IF i > Len(s) THEN 0 ELSE IF s[i] = Quote THEN i ELSE NextQuote(s, i + 1)

\* The fragments the stated precedence gives a TEXT filter string from
\* position i on: a token wrapped in double quotes is an exact match on the
\* unquoted text, "NOT x" a negated word-boundary match on x, any other bare
\* token x an affirmative word-boundary match on x.  ok is FALSE when the
\* string has an unclosed quote or an OR-prefixed token, which the precedence
\* does not cover.
RECURSIVE StatedFragments(_, _, _)
StatedFragments(field, s, i) ==
    IF i > Len(s) THEN [ok |-> TRUE, queries |-> <<>>, values |-> <<>>]
    ELSE IF s[i] = " " THEN StatedFragments(field, s, i + 1)
    ELSE IF s[i] = Quote
    THEN LET close == NextQuote(s, i + 1)
         IN  IF close = 0 THEN [ok |-> FALSE, queries |-> <<>>, values |-> <<>>]
             ELSE LET rest == StatedFragments(field, s, close + 1)
                  IN  [ok |-> rest.ok,
                       queries |-> <<field \o EqualsPlaceholder>> \o rest.queries,
                       values |-> <<SubSeq(s, i + 1, close - 1)>> \o rest.values]
    ELSE IF MatchLiteral(s, i, <<"O", "R", " ">>) /\ WordEnd(s, i + 3) >= i + 3
    THEN [ok |-> FALSE, queries |-> <<>>, values |-> <<>>]
    ELSE IF MatchLiteral(s, i, <<"N", "O", "T", " ">>) /\ WordEnd(s, i + 4) >= i + 4
    THEN LET rest == StatedFragments(field, s, WordEnd(s, i + 4) + 1)
         IN  [ok |-> rest.ok,
              queries |-> <<field \o NotRegexPlaceholder>> \o rest.queries,
              values |-> <<WordBoundary(SubSeq(s, i + 4, WordEnd(s, i + 4)))>> \o rest.values]
    ELSE LET rest == StatedFragments(field, s, WordEnd(s, i) + 1)
         IN  [ok |-> rest.ok,
              queries |-> <<field \o RegexPlaceholder>> \o rest.queries,
              values |-> <<WordBoundary(SubSeq(s, i, WordEnd(s, i)))>> \o rest.values]

\* C7: every token of a TEXT filter string is classified by the stated
\* precedence (quoted: exact match on the unquoted text; NOT x: negated
\* word-boundary match; bare x: affirmative word-boundary match), one
\* fragment per token.
C7_TextTokensClassified ==
    (/\ Compiled
     /\ Len(query_params) = 1
     /\ FieldType(field_types, query_params[1][1]) = "TEXT"
     /\ StatedFragments(query_params[1][1], query_params[1][2], 1).ok) =>
        LET stated == StatedFragments(query_params[1][1], query_params[1][2], 1)
        IN  /\ sql.sql_fields = Join(stated.queries, AndSeparator)
            /\ sql.sql_values = stated.values

\* The same statement for the strings without a quoted token other than "".
C7_HoldsWithoutQuotedText ==
    (/\ Compiled
     /\ Len(query_params) = 1
     /\ FieldType(field_types, query_params[1][1]) = "TEXT"
     /\ StatedFragments(query_params[1][1], query_params[1][2], 1).ok
     /\ \A k \in 1..Len(StatedFragments(query_params[1][1], query_params[1][2], 1).values) :
           LET v == StatedFragments(query_params[1][1], query_params[1][2], 1).values[k]
           IN  IsWordBoundary(v) \/ v = <<>>) =>
        LET stated == StatedFragments(query_params[1][1], query_params[1][2], 1)
        IN  /\ sql.sql_fields = Join(stated.queries, AndSeparator)
            /\ sql.sql_values = stated.values

Digits == {"0", "1", "2", "3", "4", "5", "6", "7", "8", "9"}

IsNumeral(s) == s # <<>> /\ \A i \in 1..Len(s) : s[i] \in Digits

\* C8: on an INTEGER or FLOAT field, with the double quotes stripped, "-N"
\* compiles to field <= %s bound to N, "N-" to field >= %s bound to N, "N-M"
\* to field BETWEEN %s AND %s bound to (N, M), and "N" to field = %s bound
\* to N.
C8_NumericForms ==
    (/\ Compiled
     /\ Len(query_params) = 1
     /\ FieldType(field_types, query_params[1][1]) \in {"INTEGER", "FLOAT"}) =>
        LET field == query_params[1][1]
            u == Remove(query_params[1][2], Quote)
            n == Len(u)
        IN  /\ (n >= 2 /\ u[1] = "-" /\ IsNumeral(Tail(u))) =>
                  /\ sql.sql_fields = field \o LessEqualPlaceholder
                  /\ sql.sql_values = <<Tail(u)>>
            /\ (n >= 2 /\ u[n] = "-" /\ IsNumeral(SubSeq(u, 1, n - 1))) =>
                  /\ sql.sql_fields = field \o GreaterEqualPlaceholder
                  /\ sql.sql_values = <<SubSeq(u, 1, n - 1)>>
            /\ \A k \in 2..(n - 1) :
                  (u[k] = "-" /\ IsNumeral(SubSeq(u, 1, k - 1)) /\ IsNumeral(SubSeq(u, k + 1, n))) =>
                     /\ sql.sql_fields = field \o BetweenPlaceholders
                     /\ sql.sql_values = <<SubSeq(u, 1, k - 1), SubSeq(u, k + 1, n)>>
            /\ IsNumeral(u) =>
                  /\ sql.sql_fields = field \o EqualsPlaceholder
                  /\ sql.sql_values = <<u>>

C8_Witness ==
    /\ Compiled
    /\ query_params = << <<YearField, <<"1", "-", "2">> >> >>
    /\ field_types[YearField] = "FLOAT"
    /\ sql.sql_fields = YearField \o BetweenPlaceholders
    /\ sql.sql_values = << <<"1">>, <<"2">> >>

-----------------------------------------------------------------------------
(* retrieve_all, retrieve_all_passage_pairs, count_results *)

\* other_args.field and other_args.value of retrieve_all.
DocField == <<"s", "o", "u", "r", "c", "e", "_", "d", "o", "c", "_", "i", "d">>

DocValue == <<"7">>

\* retrieve_all branches on sql_values.
RetrieveAllQuery(sql_fields, sql_values) ==
    <<Lit("SELECT * FROM"), Arg(DbTable), Lit("WHERE"), Arg(DocField), Lit("='"),
      Arg(DocValue), Lit("'")>>
    \o (IF sql_values # <<>> THEN <<Lit("AND"), Arg(sql_fields)>> ELSE <<>>)

\* docs_found: one entry per doc id in first-seen order, counting its rows;
\* rows holds the doc id of each row.
RECURSIVE DocsFound(_, _, _)
DocsFound(docs, cursor, i) ==
    IF i > Len(cursor) THEN docs
    ELSE DocsFound(Increment(docs, cursor[i], 1), cursor, i + 1)

retrieve_all ==
    /\ endpoint = "retrieve_all"
    /\ LET compiled == ParseArgs(query_params, field_types)
       IN  Handle(RetrieveAllQuery(compiled.sql_fields, compiled.sql_values),
                  DocsFound(<<>>, rows, 1))

\* retrieve_all_passage_pairs builds one query text, whatever the predicate.
PassagePairsQuery(sql_fields) ==
    <<Lit("SELECT * FROM"), Arg(DbTable), Lit("WHERE"), Arg(sql_fields)>>

retrieve_all_passage_pairs ==
    /\ endpoint = "retrieve_all_passage_pairs"
    /\ Handle(PassagePairsQuery(ParseArgs(query_params, field_types).sql_fields), rows)

CountQuery(sql_fields) ==
    <<Lit("SELECT COUNT(*) FROM"), Arg(DbTable)>>
    \o (IF sql_fields # <<>> THEN <<Lit("WHERE"), Arg(sql_fields)>> ELSE <<>>)

\* cursor.fetchone()[0]
count_results ==
    /\ endpoint = "count_results"
    /\ Handle(CountQuery(ParseArgs(query_params, field_types).sql_fields),
              [counts |-> rows[1]])

-----------------------------------------------------------------------------
(* Every endpoint that compiles a predicate, on requests with no filter     *)
(* parameter at all and on short filter values                              *)

\* A small answer of the store for each endpoint.
SampleRows(route) ==
    CASE route = "search_alignments" -> {<<>>, <<1, 2, 4>>}
      [] route = "retrieve_all" -> {<<>>, <<7, 7>>}
      [] route = "retrieve_all_passage_pairs" -> {<<>>, <<3, 5>>}
      [] route = "count_results" -> {<<0>>, <<2>>}
      [] route = "generate_time_series" ->
            {<<>>, <<[is_null |-> FALSE, year |-> 0, count |-> 1],
                     [is_null |-> FALSE, year |-> 2, count |-> 1]>>}
      [] route = "facets" -> {<<>>, <<[field |-> 25, count |-> 2], [field |-> 26, count |-> 1]>>}

SampleRequest(route) ==
    CASE route = "generate_time_series" -> [timeSeriesInterval |-> 1, directionSelected |-> ""]
      [] route = "facets" -> [facet |-> "source_passage_length"]
      [] OTHER -> [direction |-> "", id_anchor |-> NotDigits, page |-> NotDigits]

Routes ==
    {"search_alignments", "retrieve_all", "retrieve_all_passage_pairs", "count_results",
     "generate_time_series", "facets"}

InitEndpoints ==
    /\ endpoint \in Routes
    /\ \/ query_params = <<>>
       \/ IsFilterRequest(query_params, MaxShortLen, MaxShortLen, MaxShortLen)
    /\ InitFieldTypes
    /\ InitHandler
    /\ rows \in SampleRows(endpoint)
    /\ req = SampleRequest(endpoint)
    /\ resp = <<>>

NextEndpoints ==
    \/ search_alignments
    \/ retrieve_all
    \/ retrieve_all_passage_pairs
    \/ count_results
    \/ generate_time_series
    \/ facets

SpecEndpoints == InitEndpoints /\ [][NextEndpoints]_vars

\* The request supplies no filter field: none at all, or only empty values.
NoFilterSupplied == QueryArgs(query_params) = <<>>

\* C9: when the request supplies no filter field, query_builder returns an
\* empty predicate and an empty value list and the endpoint branches on it:
\* the query text it emits has no WHERE or AND followed by an empty predicate.
C9_NoDanglingWhere ==
    (pc \in {"done", "failed"} /\ NoFilterSupplied) =>
        /\ sql.sql_fields = <<>>
        /\ sql.sql_values = <<>>
        /\ ~Dangling(sql.query)

\* The same statement for the endpoints other than retrieve_all_passage_pairs.
C9_HoldsElsewhere ==
    (pc \in {"done", "failed"} /\ NoFilterSupplied
     /\ endpoint # "retrieve_all_passage_pairs") =>
        /\ sql.sql_fields = <<>>
        /\ sql.sql_values = <<>>
        /\ ~Dangling(sql.query)

-----------------------------------------------------------------------------
(* get_passage_group: grouped-duplicate resolution *)

\* Titles are one-letter strings; TitleRank is their place in the order
\* Python compares strings by.
Titles == {"a", "b", "c"}

TitleRank == [t \in Titles |-> CASE t = "a" -> 1 [] t = "b" -> 2 [] t = "c" -> 3]

Authors == {"x", "y"}

Years == {1800, 1900}

\* The value stored under a title: the side it came from with its year.
Passage(title, year, direction) == [title |-> title, year |-> year, direction |-> direction]

\* UpsertTitle that keeps the later year of a title instead of the earlier.
UpsertTitleLatest(filtered_titles, title, year, direction) ==
    IF \A i \in 1..Len(filtered_titles) : filtered_titles[i].title # title
    THEN Append(filtered_titles, Passage(title, year, direction))
    ELSE [i \in 1..Len(filtered_titles) |->
            IF filtered_titles[i].title = title /\ filtered_titles[i].year < year
            THEN Passage(title, year, direction)
            ELSE filtered_titles[i]]

\* filtered_titles is the sequence of the dict's values in insertion order.
\* "if title not in filtered_titles: ... else: if filtered_titles[title]["year"] > year: ..."
\* (a replaced value keeps the place of its key).
UpsertTitle(filtered_titles, title, year, direction) ==
    IF \A i \in 1..Len(filtered_titles) : filtered_titles[i].title # title
    THEN Append(filtered_titles, Passage(title, year, direction))
    ELSE [i \in 1..Len(filtered_titles) |->
            IF filtered_titles[i].title = title /\ filtered_titles[i].year > year
            THEN Passage(title, year, direction)
            ELSE filtered_titles[i]]

\* The source side of a row is processed only when both its author and its
\* title differ from the original passage's.
SourceContributes(row, original_passage) ==
    /\ row.source_author # original_passage.source_author
    /\ row.source_title # original_passage.source_title

\* One iteration of "for row in cursor": the source side, then the target side.
GroupStep(filtered_titles, row, original_passage) ==
    LET after_source ==
            IF SourceContributes(row, original_passage)
            THEN UpsertTitle(filtered_titles, row.source_title, row.source_year, "source")
            ELSE filtered_titles
    IN  UpsertTitle(after_source, row.target_title, row.target_year, "target")

RECURSIVE GroupLoop(_, _, _, _)
GroupLoop(filtered_titles, cursor, i, original_passage) ==
    IF i > Len(cursor) THEN filtered_titles
    ELSE GroupLoop(GroupStep(filtered_titles, cursor[i], original_passage),
                   cursor, i + 1, original_passage)

\* "for value in filtered_titles.values()": results, the dict from year to
\* the list of its values, as the sequence of its items in insertion order.
RECURSIVE PartitionByYear(_, _, _)
PartitionByYear(results, values, i) ==
    IF i > Len(values) THEN results
    ELSE LET value == values[i]
             next ==
                 IF \A k \in 1..Len(results) : results[k].year # value.year
                 THEN Append(results, [year |-> value.year, result |-> <<value>>])
                 ELSE [k \in 1..Len(results) |->
                         IF results[k].year = value.year
                         THEN [results[k] EXCEPT !.result = Append(@, value)]
                         ELSE results[k]]
         IN  PartitionByYear(next, values, i + 1)

\* value.sort(key=title, reverse=True): descending by title, values of equal
\* title in their original order.
RECURSIVE SortedByTitle(_)
SortedByTitle(values) ==
    IF values = <<>> THEN <<>>
    ELSE LET rest == SortedByTitle(Tail(values))
             ahead == SelectSeq(rest, LAMBDA x : TitleRank[x.title] > TitleRank[Head(values).title])
             behind == SelectSeq(rest, LAMBDA x : TitleRank[x.title] <= TitleRank[Head(values).title])
         IN  ahead \o <<Head(values)>> \o behind

\* passage_list.sort(key=year): ascending by year, entries of equal year in
\* their original order.
RECURSIVE SortedByYear(_)
SortedByYear(entries) ==
    IF entries = <<>> THEN <<>>
    ELSE LET rest == SortedByYear(Tail(entries))
             ahead == SelectSeq(rest, LAMBDA x : x.year < Head(entries).year)
             behind == SelectSeq(rest, LAMBDA x : x.year >= Head(entries).year)
         IN  ahead \o <<Head(entries)>> \o behind

\* The store's answers to the two queries of get_passage_group: original is
\* what cursor.fetchone() returns from the groups table (<<>> for None, else
\* the one row), members are the rows of the group in the alignment table.
PassageListOf(members, original_passage) ==
    LET filtered_titles == GroupLoop(<<>>, members, 1, original_passage)
        results == PartitionByYear(<<>>, filtered_titles, 1)
    IN  SortedByYear([k \in 1..Len(results) |->
                        [year |-> results[k].year, result |-> SortedByTitle(results[k].result)]])

\* cursor.fetchone() is None when the groups table has no row for group_id:
\* ".items()" then raises AttributeError.
GroupRaises == rows.original = <<>>

GroupResponse ==
    [passageList |-> PassageListOf(rows.members, rows.original[1]),
     original_passage |-> rows.original[1]]

NoGroupResponse == [passageList |-> <<>>, original_passage |-> <<>>]


\* get_passage_group: connect, fetch the original passage, loop over the
\* member rows, close, then partition and sort.
get_passage_group ==
    /\ endpoint = "get_passage_group"
    /\ pc = "request"
    /\ conn' = ConnAfter(GroupRaises)
    /\ IF GroupRaises
       THEN pc' = "failed" /\ UNCHANGED resp
       ELSE pc' = "done" /\ resp' = GroupResponse
    /\ UNCHANGED <<endpoint, rows, has_group, req, trail, query_params, field_types, sql>>

MemberRows ==
    [source_author : Authors, source_title : Titles, source_year : Years,
     target_title : Titles, target_year : Years]

\* The original passage is absent from the groups table, or it is the row
\* of author "x" and title "a"; the group has up to MaxMembers member rows
\* (none are read when the original passage is absent).
InitGroup ==
    /\ endpoint = "get_passage_group"
    /\ pc = "request"
    /\ \/ rows = [original |-> <<>>, members |-> <<>>]
       \/ \E n \in 0..MaxMembers : \E members \in [1..n -> MemberRows] :
             rows = [original |-> <<[source_author |-> "x", source_title |-> "a"]>>,
                     members |-> members]
    /\ has_group = TRUE
    /\ req = [group_id |-> 1]
    /\ resp = NoGroupResponse
    /\ trail = <<>>
    /\ conn = "none"
    /\ NoFilter

NextGroup == get_passage_group

SpecGroup == InitGroup /\ [][NextGroup]_vars

\* The contributing occurrences of the group: every target side, and the
\* source sides the loop processes, as <<title, year>> pairs.
Occurrences ==
    LET members == rows.members
        original_passage == rows.original[1]
    IN  {<<members[i].target_title, members[i].target_year>> : i \in 1..Len(members)}
        \cup {<<members[i].source_title, members[i].source_year>> :
                i \in {k \in 1..Len(members) : SourceContributes(members[k], original_passage)}}

EarliestYear(title) ==
    LET years == {o[2] : o \in {x \in Occurrences : x[1] = title}}
    IN  CHOOSE y \in years : \A z \in years : y <= z

\* The places <<i, j>> of the passageList where a title stands.
PlacesOf(title) ==
    {<<i, j>> \in (1..Len(resp.passageList)) \X (1..Cardinality(Titles)) :
        /\ j <= Len(resp.passageList[i].result)
        /\ resp.passageList[i].result[j].title = title}

\* C11: in the passageList get_passage_group returns, each contributing title
\* stands exactly once, under the minimum year over all its contributing
\* occurrences; no other title stands in it; the year entries are strictly
\* ascending and the titles within each year are descending.
C11_EarliestYearPerTitle ==
    (endpoint = "get_passage_group" /\ pc = "done") =>
        LET list == resp.passageList
        IN  /\ \A o \in Occurrences :
                  /\ Cardinality(PlacesOf(o[1])) = 1
                  /\ \A place \in PlacesOf(o[1]) :
                        /\ list[place[1]].year = EarliestYear(o[1])
                        /\ list[place[1]].result[place[2]].year = EarliestYear(o[1])
            /\ \A i \in 1..Len(list) :
                  /\ list[i].result # <<>>
                  /\ \A j \in 1..Len(list[i].result) :
                        \E o \in Occurrences : o[1] = list[i].result[j].title
                  /\ \A j \in 1..(Len(list[i].result) - 1) :
                        TitleRank[list[i].result[j].title] > TitleRank[list[i].result[j + 1].title]
            /\ \A i \in 1..(Len(list) - 1) : list[i].year < list[i + 1].year

\* A group where a title occurs under two years, the later one first, and
\* where two titles share the earlier year.
C11_Witness ==
    /\ endpoint = "get_passage_group"
    /\ pc = "done"
    /\ Len(rows.members) = 2
    /\ rows.members[1].target_title = "b"
    /\ rows.members[1].target_year = 1900
    /\ <<"b", 1800>> \in Occurrences
    /\ <<"c", 1800>> \in Occurrences
    /\ Len(resp.passageList) = 2
    /\ Len(resp.passageList[1].result) = 2
    /\ resp.passageList[1].result[1].title = "c"
    /\ resp.passageList[1].result[2].title = "b"


-----------------------------------------------------------------------------
(* The store connection of a request *)

RequestEnded == pc \in {"done", "failed"}

\* C12: every request that opens a store connection has closed it when the
\* request ends, on the paths where a query or the processing of its rows
\* fails as well as on the path where the response is returned: no request
\* ends with its connection still open.
C12_ConnectionReleased == RequestEnded => conn # "open"

\* The same statement for the requests that return a response.
C12_HoldsWhenNothingRaises == pc = "done" => conn = "closed"


-----------------------------------------------------------------------------
(* parse_args and FormArguments on the numeric control parameters, from the *)
(* characters of the query string                                           *)

ControlKeys == {"page", "id_anchor", "timeSeriesInterval"}

\* Characters int() reads as decimal digits, and a character str.isdigit()
\* accepts although int() raises ValueError on it (SuperscriptTwo stands for
\* the one character U+00B2).
DecimalDigits == {"0", "1"}

SuperscriptTwo == "^2"

ControlChars == DecimalDigits \cup {SuperscriptTwo, "-"}

\* str.isdigit(): at least one character and every character a digit.
IsDigit(value) ==
    /\ value # <<>>
    /\ \A i \in 1..Len(value) : value[i] \in DecimalDigits \cup {SuperscriptTwo}

\* int(value) raises ValueError.
IntRaises(value) == \E i \in 1..Len(value) : value[i] \notin DecimalDigits

DigitValue(c) == IF c = "0" THEN 0 ELSE 1

\* int(value) for a string of decimal digits.
RECURSIVE IntOf(_)
IntOf(value) ==
    IF value = <<>> THEN 0
    ELSE 10 * IntOf(SubSeq(value, 1, Len(value) - 1)) + DigitValue(value[Len(value)])

\* FormArguments.__setitem__ that stores every value, falsy ones included.
SetItemAlways(dict, item, value) == (item :> value) @@ dict

\* FormArguments.__setitem__: "if value: self.dict[item] = value".
SetItem(dict, item, value) == IF value # 0 THEN (item :> value) @@ dict ELSE dict

\* FormArguments.__getitem__ on the numeric control parameters.
GetItem(dict, item) ==
    IF item \in DOMAIN dict THEN dict[item]
    ELSE IF item = "page" THEN 1
    ELSE IF item = "id_anchor" THEN 0
    ELSE 1

\* "for key, value in request.query_params.items()" on the numeric control
\* parameters of the request r (a function from the keys present to their
\* raw values): other_args after the keys in left have been processed.
RECURSIVE ControlLoop(_, _, _)
ControlLoop(other_args, r, left) ==
    IF left = {} THEN other_args
    ELSE LET key == CHOOSE k \in left : TRUE
             next == IF IsDigit(r[key])
                     THEN SetItem(other_args, key, IntOf(r[key]))
                     ELSE other_args
         IN  ControlLoop(next, r, left \ {key})

\* int(value) is reached for a value isdigit() accepts and int() rejects.
ControlRaises(r) == \E key \in DOMAIN r : IsDigit(r[key]) /\ IntRaises(r[key])

EmptyDict == [key \in {} |-> 0]

\* parse_args up to the end of its loop over the query parameters.
parse_args ==
    /\ endpoint = "parse_args"
    /\ pc = "request"
    /\ IF ControlRaises(req)
       THEN pc' = "failed" /\ UNCHANGED resp
       ELSE pc' = "done" /\ resp' = ControlLoop(EmptyDict, req, DOMAIN req)
    /\ UNCHANGED <<endpoint, rows, has_group, req, trail, query_params, field_types, sql, conn>>

\* A request carries any subset of the numeric control parameters, each with
\* any value of up to MaxControlLen characters.
InitControls ==
    /\ endpoint = "parse_args"
    /\ pc = "request"
    /\ \E keys \in SUBSET ControlKeys :
          req \in [keys -> Strings(ControlChars, MaxControlLen)]
    /\ rows = <<>>
    /\ has_group = FALSE
    /\ resp = EmptyDict
    /\ trail = <<>>
    /\ conn = "none"
    /\ NoFilter

NextControls == parse_args

SpecControls == InitControls /\ [][NextControls]_vars

\* The numeral of a parameter leaves the default in place: the parameter is
\* absent, is not all digits, or is a numeral of zero.
ReadsDefault(key) ==
    \/ key \notin DOMAIN req
    \/ ~IsDigit(req[key])
    \/ \A i \in 1..Len(req[key]) : req[key][i] = "0"

\* C13: the control values read after parse_args satisfy page >= 1,
\* id_anchor >= 0 and timeSeriesInterval >= 1, and a parameter that is absent,
\* not all digits or equal to 0 reads back as its default (1, 0 and 1), so
\* the step of the gap-fill loop is positive.
C13_ControlDefaults ==
    (endpoint = "parse_args" /\ pc = "done") =>
        /\ GetItem(resp, "page") >= 1
        /\ GetItem(resp, "id_anchor") >= 0
        /\ GetItem(resp, "timeSeriesInterval") >= 1
        /\ ReadsDefault("page") => GetItem(resp, "page") = 1
        /\ ReadsDefault("id_anchor") => GetItem(resp, "id_anchor") = 0
        /\ ReadsDefault("timeSeriesInterval") => GetItem(resp, "timeSeriesInterval") = 1
        /\ \A year \in 0..1 :
              NextYear(year, GetItem(resp, "timeSeriesInterval")) > year

\* The integer that stands for a raw control parameter where the requests
\* are drawn as integers: its value, or NotDigits.
AsControlInt(key) ==
    IF key \in DOMAIN req /\ IsDigit(req[key]) THEN IntOf(req[key]) ELSE NotDigits

\* ControlInt reads the control parameters as parse_args and FormArguments do.
ControlIntAgrees ==
    (endpoint = "parse_args" /\ pc = "done") =>
        /\ GetItem(resp, "page") = ControlInt(AsControlInt("page"), 1)
        /\ GetItem(resp, "id_anchor") = ControlInt(AsControlInt("id_anchor"), 0)
        /\ GetItem(resp, "timeSeriesInterval") = ControlInt(AsControlInt("timeSeriesInterval"), 1)

\* A request with page=0, a signed id_anchor and a real interval.
C13_Witness ==
    /\ endpoint = "parse_args"
    /\ pc = "done"
    /\ DOMAIN req = ControlKeys
    /\ req["page"] = <<"0">>
    /\ req["id_anchor"] = <<"-", "1">>
    /\ req["timeSeriesInterval"] = <<"1", "0">>
    /\ GetItem(resp, "page") = 1
    /\ GetItem(resp, "id_anchor") = 0
    /\ GetItem(resp, "timeSeriesInterval") = 10

=============================================================================
